---- MODULE Spec2Model ----
(***************************************************************************)
(* Model of PerfectPayPixGenerator (src/generate/qrcode_pix.py): one       *)
(* generator object driving one Selenium browser.  The browser and the    *)
(* remote checkout page are the environment: every driver call either     *)
(* returns or raises, and the page content is chosen nondeterministically. *)
(***************************************************************************)
EXTENDS Integers, Sequences, FiniteSets, TLC

VARIABLES
    pc,               \* position of the single thread of control
    driver,           \* self.driver: "None" or "chrome"
    alive,            \* the browser process behind self.driver is running
    logger,           \* self.logger has been set by _setup_logging
    patchedSinceNav,  \* navigator.webdriver patch injected since the last driver.get
    runs,             \* number of generate_pix calls made
    navs,             \* number of navigate_to calls made
    closes,           \* number of close() calls made
    quits,            \* number of driver.quit() calls issued
    escaped,          \* the last public call raised to its caller
    profile,          \* arguments of the running generate_pix call
    exc,              \* exception propagating inside generate_pix ("none" if none)
    failedStep,       \* step of generate_pix that raised the propagating exception
    result,           \* value returned by generate_pix, if it was the last call
    qr_code,          \* local qr_code of generate_pix
    pix_button,       \* local pix_button of _handle_existing_pix (0 is None)
    selector,         \* index of the loop variable over pix_selectors
    page_links,       \* kinds of "existing payment" anchors present on the page
    evaluated,        \* pix_selectors handed to find_element, in order
    started,          \* steps of generate_pix started in this run, in order
    shots,            \* _take_screenshot calls of this run: <<tag, outcome>>
    image,            \* return value of capture_and_display_qr_image in this run
    image_bytes,      \* local image_bytes of capture_and_display_qr_image
    saved_file,       \* bytes of the file image.save wrote in this run (<<>> if none)
    reported,         \* byte length printed after the save (-1 if none)
    trace             \* browser-level calls of the current or last public call:
                      \* <<operation, outcome>>

vars == <<pc, driver, alive, logger, patchedSinceNav, runs, navs, closes, quits,
          escaped, profile, exc, failedStep, result, qr_code, pix_button,
          selector, page_links, evaluated, started, shots, image, image_bytes, saved_file, reported, trace>>

(* ---------------------------- bounds ---------------------------------- *)

MaxRuns == 2
MaxNavs == 1
MaxCloses == 2

(* ---------------------------- values ---------------------------------- *)

None == "<None>"
NoResult == "<no result>"
NoProfile == <<>>

\* customer profiles <<email, name, phone, cpf>> handed to generate_pix
Profiles == { <<"a@b.com", "A B", "1199999999", "12345678900">>,
              <<"i@c.br", "Iago", "95997984584", "25252856974">> }

\* what get_attribute("value") can yield on the element with id qrCode
TokenValues == { "00020126...6304ABCD", "", None }

\* what driver.current_url can yield: on the intermediate payment path or not
UrlKinds == { "/payment/", "other" }

\* what get_attribute("src") can yield on the image element, as the list of its
\* comma-separated parts (what split(",") returns); <<>> stands for None
ImgSrcs == { <<>>, <<"">>, <<"x data:image">>, <<"data:image/png;base64">>,
             <<"data:image/png;base64", "dGV">>, <<"data:image/png;base64", "dGV4">>,
             <<"data:image/png;base64", "iQEC">>, <<"data:image/gif;base64", "RwEC">> }

\* img_src is truthy and img_src.startswith("data:image")
IsDataImage(src) ==
    src # <<>> /\ src[1] \in {"data:image/png;base64", "data:image/gif;base64"}

\* the characters of the payload strings above
Chars(b64) ==
    CASE b64 = "dGV" -> <<"d", "G", "V">>
      [] b64 = "dGV4" -> <<"d", "G", "V", "4">>
      [] b64 = "iQEC" -> <<"i", "Q", "E", "C">>
      [] b64 = "RwEC" -> <<"R", "w", "E", "C">>

\* the base64 alphabet, in the order of its values 0..63
B64Alphabet ==
    <<"A", "B", "C", "D", "E", "F", "G", "H", "I", "J", "K", "L", "M", "N", "O", "P",
      "Q", "R", "S", "T", "U", "V", "W", "X", "Y", "Z", "a", "b", "c", "d", "e", "f",
      "g", "h", "i", "j", "k", "l", "m", "n", "o", "p", "q", "r", "s", "t", "u", "v",
      "w", "x", "y", "z", "0", "1", "2", "3", "4", "5", "6", "7", "8", "9", "+", "/">>

\* the six-bit value of a base64 character
B64Value(c) == (CHOOSE i \in 1..Len(B64Alphabet) : B64Alphabet[i] = c) - 1

RECURSIVE B64Bytes(_)
\* the bytes of a character list made of whole groups of four
B64Bytes(cs) ==
    IF cs = <<>> THEN <<>>
    ELSE LET n == B64Value(cs[1]) * 262144 + B64Value(cs[2]) * 4096
                  + B64Value(cs[3]) * 64 + B64Value(cs[4])
         IN <<n \div 65536, (n \div 256) % 256, n % 256>> \o B64Bytes(SubSeq(cs, 5, Len(cs)))

\* base64.b64decode accepts the payload: its length is a multiple of four
\* (else binascii.Error, incorrect padding)
Decodes(b64) == Len(Chars(b64)) % 4 = 0

\* base64.b64decode(base64_data)
B64Decode(b64) == B64Bytes(Chars(b64))

\* Image.open recognises the bytes: a format byte (137 opens a PNG, 71 a GIF)
\* and two bytes of pixel data; what follows them is ancillary and ignored
IsImage(b64) == LET bs == B64Decode(b64) IN Len(bs) >= 3 /\ bs[1] \in {137, 71}

\* the bytes image.save writes to the .png file: the image re-encoded as PNG,
\* format byte 137 and the pixel data
PngEncode(bs) == <<137, bs[2], bs[3]>>

\* a driver call returns (TRUE) or raises (FALSE); a quit browser only raises
Outcomes == IF alive THEN BOOLEAN ELSE {FALSE}

Ev(op, ok) == <<op, IF ok THEN "ok" ELSE "raise">>
Sleep(secs) == <<"sleep", secs>>

\* number of entries of the call list xs whose operation is op
Count(xs, op) == Cardinality({ i \in 1..Len(xs) : xs[i][1] = op })

(* ------------------------- pix_selectors ------------------------------ *)

\* bracket skeletons of the three XPath strings of pix_selectors
pix_selectors == <<
    <<"[", "(", ")", "(", "(", ")", ")", "]">>,
    <<"[", "(", ")", "]">>,
    <<"[", "(", ")", "(", ")", "(", ")">> >>

RECURSIVE Unclosed(_, _)
\* the brackets still open after reading xs with stack st; <<"!">> on a mismatch
Unclosed(xs, st) ==
    IF xs = <<>> THEN st
    ELSE LET c == Head(xs) IN
         IF c \in {"[", "("} THEN Unclosed(Tail(xs), <<c>> \o st)
         ELSE IF st # <<>> /\ ((c = "]" /\ Head(st) = "[") \/ (c = ")" /\ Head(st) = "("))
              THEN Unclosed(Tail(xs), Tail(st))
              ELSE <<"!">>

\* the XPath engine accepts the expression (else InvalidSelectorException)
WellFormed(i) == Unclosed(pix_selectors[i], <<>>) = <<>>

\* driver.find_element(By.XPATH, pix_selectors[i]) returns an element
FindsElement(i) == WellFormed(i) /\ i \in page_links

(* ------------------------- _take_screenshot --------------------------- *)

\* one call of _take_screenshot(filename); saved is whether save_screenshot worked
TakeScreenshot(filename, saved) ==
    Append(shots, <<filename, IF saved THEN "saved" ELSE "failed">>)

(* ------------------------------ Init ---------------------------------- *)

Init ==
    /\ pc = "new"
    /\ driver = None
    /\ alive = FALSE
    /\ logger = FALSE
    /\ patchedSinceNav = FALSE
    /\ runs = 0
    /\ navs = 0
    /\ closes = 0
    /\ quits = 0
    /\ escaped = FALSE
    /\ profile = NoProfile
    /\ exc = "none"
    /\ failedStep = "none"
    /\ result = NoResult
    /\ qr_code = None
    /\ pix_button = 0
    /\ selector = 0
    /\ page_links = {}
    /\ evaluated = <<>>
    /\ started = <<>>
    /\ shots = <<>>
    /\ image = None
    /\ image_bytes = <<>>
    /\ saved_file = <<>>
    /\ reported = -1
    /\ trace = <<>>

runVars == <<profile, exc, failedStep, result, qr_code, pix_button, selector,
             page_links, evaluated, started, shots, image, image_bytes, saved_file, reported, trace>>
sessionVars == <<driver, alive, logger, patchedSinceNav, runs, navs, closes, quits, escaped>>

(* --------------------------- constructor ------------------------------ *)

\* _setup_driver: launch Chrome, build the wait, inject the navigator patch
SetupDriver ==
    /\ pc = "new"
    /\ \E launched \in BOOLEAN, patched \in BOOLEAN :
         IF ~launched
         THEN /\ pc' = "ctor_failed"
              /\ escaped' = TRUE
              /\ UNCHANGED <<driver, alive, patchedSinceNav>>
         ELSE /\ driver' = "chrome"
              /\ alive' = TRUE
              /\ patchedSinceNav' = patched
              /\ pc' = IF patched THEN "ctor_dirs" ELSE "ctor_failed"
              /\ escaped' = ~patched
    /\ UNCHANGED <<logger, runs, navs, closes, quits>>
    /\ UNCHANGED runVars

\* _create_logs_dir: the filesystem calls succeed or raise OSError
CreateLogsDir ==
    /\ pc = "ctor_dirs"
    /\ \E ok \in BOOLEAN :
         /\ pc' = IF ok THEN "ctor_logging" ELSE "ctor_failed"
         /\ escaped' = ~ok
    /\ UNCHANGED <<driver, alive, logger, patchedSinceNav, runs, navs, closes, quits>>
    /\ UNCHANGED runVars

\* _setup_logging: sets self.logger; opening the log file may raise
SetupLogging ==
    /\ pc = "ctor_logging"
    /\ \E ok \in BOOLEAN :
         /\ logger' = ok
         /\ pc' = IF ok THEN "idle" ELSE "ctor_failed"
         /\ escaped' = ~ok
    /\ UNCHANGED <<driver, alive, patchedSinceNav, runs, navs, closes, quits>>
    /\ UNCHANGED runVars

(* --------------------------- generate_pix ----------------------------- *)

\* generate_pix is called: the try block is entered and the start is logged
GeneratePix ==
    /\ pc = "idle"
    /\ runs < MaxRuns
    /\ \E p \in Profiles : profile' = p
    /\ runs' = runs + 1
    /\ escaped' = FALSE
    /\ exc' = "none"
    /\ failedStep' = "none"
    /\ result' = NoResult
    /\ qr_code' = None
    /\ pix_button' = 0
    /\ selector' = 0
    /\ page_links' = {}
    /\ evaluated' = <<>>
    /\ started' = <<>>
    /\ shots' = <<>>
    /\ image' = None
    /\ image_bytes' = <<>>
    /\ saved_file' = <<>>
    /\ reported' = -1
    /\ trace' = <<>>
    /\ pc' = "navigate"
    /\ UNCHANGED <<driver, alive, logger, patchedSinceNav, navs, closes, quits>>

\* an exception leaves step `step` of the try block of generate_pix
Raise(step, message) ==
    /\ exc' = message
    /\ failedStep' = step
    /\ pc' = "except"

\* _navigate_to_checkout: driver.get(url), settle one second, log
NavigateToCheckout ==
    /\ pc = "navigate"
    /\ started' = Append(started, "navigate")
    /\ \E ok \in Outcomes :
         /\ trace' = IF ok THEN trace \o <<Ev("get", ok), Sleep("1")>>
                           ELSE Append(trace, Ev("get", ok))
         /\ patchedSinceNav' = FALSE
         /\ IF ok
            THEN pc' = "fill" /\ UNCHANGED <<exc, failedStep>>
            ELSE Raise("navigate", "WebDriverException")
    /\ UNCHANGED <<driver, alive, logger, runs, navs, closes, quits, escaped>>
    /\ UNCHANGED <<profile, result, qr_code, pix_button, selector, page_links,
                   evaluated, shots, image, image_bytes, saved_file, reported>>

\* a _fill_cpf_field that swallows its failures and lets the run go on
FillCpfFieldSwallow ==
    /\ pc = "fill"
    /\ started' = Append(started, "fill")
    /\ \E present \in Outcomes, typed \in Outcomes :
         trace' = IF ~present THEN Append(trace, Ev("wait_identification", FALSE))
                  ELSE trace \o <<Ev("wait_identification", TRUE), Ev("send_keys", typed)>>
    /\ pc' = "finish"
    /\ UNCHANGED sessionVars
    /\ UNCHANGED <<profile, exc, failedStep, result, qr_code, pix_button, selector,
                   page_links, evaluated, shots, image, image_bytes, saved_file, reported>>

\* _fill_cpf_field: wait for #identification-number, then send the cpf
FillCpfField ==
    /\ pc = "fill"
    /\ started' = Append(started, "fill")
    /\ \E present \in Outcomes, typed \in Outcomes :
         IF ~present
         THEN /\ trace' = Append(trace, Ev("wait_identification", FALSE))
              /\ Raise("fill", "TimeoutException")
         ELSE /\ trace' = trace \o <<Ev("wait_identification", TRUE), Ev("send_keys", typed)>>
              /\ IF typed
                 THEN pc' = "finish" /\ UNCHANGED <<exc, failedStep>>
                 ELSE Raise("fill", "WebDriverException")
    /\ UNCHANGED sessionVars
    /\ UNCHANGED <<profile, result, qr_code, pix_button, selector, page_links,
                   evaluated, shots, image, image_bytes, saved_file, reported>>

\* _finish_purchase, outer try: wait for #finish-buy-btn to be clickable,
\* scroll it into view, settle one second
FinishPurchaseLocate ==
    /\ pc = "finish"
    /\ started' = Append(started, "finish")
    /\ \E clickable \in Outcomes, scrolled \in Outcomes :
         IF ~clickable
         THEN /\ trace' = Append(trace, Ev("wait_finish", FALSE))
              /\ pc' = "finish_alt"
         ELSE IF ~scrolled
         THEN /\ trace' = trace \o <<Ev("wait_finish", TRUE), Ev("scroll_finish", FALSE)>>
              /\ pc' = "finish_alt"
         ELSE /\ trace' = trace \o <<Ev("wait_finish", TRUE), Ev("scroll_finish", TRUE),
                                     Sleep("1")>>
              /\ pc' = "finish_click"
    /\ UNCHANGED sessionVars
    /\ UNCHANGED <<profile, exc, failedStep, result, qr_code, pix_button, selector,
                   page_links, evaluated, shots, image, image_bytes, saved_file, reported>>

\* a native click followed by the scripted click even when it returned
NativeClickNextAlways(ok) == "finish_js"

\* a native click whose failure goes straight to the outer except
NativeClickNextNoFallback(ok) == IF ok THEN "existing" ELSE "finish_alt"

\* where _finish_purchase goes after finish_btn.click() returned (ok) or raised
NativeClickNext(ok) == IF ok THEN "existing" ELSE "finish_js"

\* _finish_purchase, inner try: finish_btn.click()
FinishPurchaseClick ==
    /\ pc = "finish_click"
    /\ \E ok \in Outcomes :
         /\ trace' = Append(trace, Ev("click_finish", ok))
         /\ pc' = NativeClickNext(ok)
    /\ UNCHANGED sessionVars
    /\ UNCHANGED <<profile, exc, failedStep, result, qr_code, pix_button, selector,
                   page_links, evaluated, started, shots, image, image_bytes, saved_file, reported>>

\* _finish_purchase, inner except: execute_script("arguments[0].click();")
FinishPurchaseScriptedClick ==
    /\ pc = "finish_js"
    /\ \E ok \in Outcomes :
         /\ trace' = Append(trace, Ev("js_click_finish", ok))
         /\ pc' = IF ok THEN "existing" ELSE "finish_alt"
    /\ UNCHANGED sessionVars
    /\ UNCHANGED <<profile, exc, failedStep, result, qr_code, pix_button, selector,
                   page_links, evaluated, started, shots, image, image_bytes, saved_file, reported>>

\* an outer except that gives up without the direct lookup
FinishPurchaseAlternativeNone ==
    /\ pc = "finish_alt"
    /\ Raise("finish", "Nao foi possivel clicar no botao de finalizar compra")
    /\ UNCHANGED sessionVars
    /\ UNCHANGED <<profile, result, qr_code, pix_button, selector, page_links,
                   evaluated, started, shots, image, image_bytes, saved_file, reported, trace>>

\* _finish_purchase, outer except: direct find_element and scripted click,
\* a failure of either raises the finalization failure
FinishPurchaseAlternative ==
    /\ pc = "finish_alt"
    /\ \E found \in Outcomes, ok \in Outcomes :
         IF ~found
         THEN /\ trace' = Append(trace, Ev("find_finish", FALSE))
              /\ Raise("finish", "Nao foi possivel clicar no botao de finalizar compra")
         ELSE /\ trace' = trace \o <<Ev("find_finish", TRUE), Ev("js_click_finish", ok)>>
              /\ IF ok
                 THEN pc' = "existing" /\ UNCHANGED <<exc, failedStep>>
                 ELSE Raise("finish", "Nao foi possivel clicar no botao de finalizar compra")
    /\ UNCHANGED sessionVars
    /\ UNCHANGED <<profile, result, qr_code, pix_button, selector, page_links,
                   evaluated, started, shots, image, image_bytes, saved_file, reported>>

(* ------------------------ _handle_existing_pix ------------------------ *)

\* a _handle_existing_pix that probes the page without settling first
HandleExistingPixStartNoSettle ==
    /\ pc = "existing"
    /\ started' = Append(started, "existing")
    /\ \E links \in SUBSET (1..Len(pix_selectors)) : page_links' = links
    /\ pix_button' = 0
    /\ selector' = 1
    /\ pc' = "existing_probe"
    /\ UNCHANGED sessionVars
    /\ UNCHANGED <<profile, exc, failedStep, result, qr_code, evaluated, shots, image, image_bytes, saved_file, reported,
                   trace>>

\* _handle_existing_pix: settle three seconds, enter the loop over pix_selectors
HandleExistingPixStart ==
    /\ pc = "existing"
    /\ started' = Append(started, "existing")
    /\ trace' = Append(trace, Sleep("3"))
    /\ \E links \in SUBSET (1..Len(pix_selectors)) : page_links' = links
    /\ pix_button' = 0
    /\ selector' = 1
    /\ pc' = "existing_probe"
    /\ UNCHANGED sessionVars
    /\ UNCHANGED <<profile, exc, failedStep, result, qr_code, evaluated, shots, image, image_bytes, saved_file, reported>>

\* one iteration of the loop: find_element, break on a match, continue otherwise
HandleExistingPixProbe ==
    /\ pc = "existing_probe"
    /\ evaluated' = Append(evaluated, selector)
    /\ trace' = Append(trace, Ev("find_pix", FindsElement(selector)))
    /\ IF FindsElement(selector)
       THEN /\ pix_button' = selector
            /\ pc' = "existing_act"
            /\ UNCHANGED selector
       ELSE /\ UNCHANGED pix_button
            /\ IF selector < Len(pix_selectors)
               THEN selector' = selector + 1 /\ pc' = "existing_probe"
               ELSE UNCHANGED selector /\ pc' = "existing_act"
    /\ UNCHANGED sessionVars
    /\ UNCHANGED <<profile, exc, failedStep, result, qr_code, page_links, started,
                   shots, image, image_bytes, saved_file, reported>>

\* a resolver that treats the absence of a link as a failure of the run
NoExistingPixNextRaises == "except"

\* position of generate_pix once _handle_existing_pix found no link
NoExistingPixNext == "capture"

\* a resolver whose scroll or click failure aborts the run
ExistingPixNextUncaught(ok) == IF ok THEN "capture" ELSE "except"

\* position of generate_pix once the link found was scrolled to and clicked
\* (ok) or one of the two calls raised: the outer except only logs
ExistingPixNext(ok) == "capture"

\* after the loop: scroll to and click the link found, or log that none was;
\* whatever raises here is caught and logged by the outer except
HandleExistingPixAct ==
    /\ pc = "existing_act"
    /\ IF pix_button # 0
       THEN \E scrolled \in Outcomes, clicked \in Outcomes :
                 /\ trace' = IF ~scrolled
                             THEN Append(trace, Ev("scroll_pix", FALSE))
                             ELSE IF ~clicked
                             THEN trace \o <<Ev("scroll_pix", TRUE), Sleep("1"),
                                             Ev("js_click_pix", FALSE)>>
                             ELSE trace \o <<Ev("scroll_pix", TRUE), Sleep("1"),
                                             Ev("js_click_pix", TRUE), Sleep("3")>>
                 /\ pc' = ExistingPixNext(scrolled /\ clicked)
       ELSE /\ UNCHANGED trace
            /\ pc' = NoExistingPixNext
    /\ UNCHANGED sessionVars
    /\ UNCHANGED <<profile, exc, failedStep, result, qr_code, pix_button, selector,
                   page_links, evaluated, started, shots, image, image_bytes, saved_file, reported>>

(* -------------------------- _capture_qr_code -------------------------- *)

\* a _capture_qr_code that keeps waiting while the URL stays on the payment
\* path: a second delay and a third read
CaptureQrCodeUrlRetry ==
    /\ pc = "capture"
    /\ started' = Append(started, "capture")
    /\ \E url \in UrlKinds, url2 \in UrlKinds, url3 \in UrlKinds :
         /\ trace' = trace \o <<Sleep("3"), <<"current_url", url>>>> \o
                     (IF url # "/payment/" THEN <<>>
                      ELSE <<Sleep("5"), <<"current_url", url2>>>> \o
                           (IF url2 # "/payment/" THEN <<>>
                            ELSE <<Sleep("5"), <<"current_url", url3>>>>))
         /\ pc' = "capture_wait"
    /\ UNCHANGED sessionVars
    /\ UNCHANGED <<profile, exc, failedStep, result, qr_code, pix_button, selector,
                   page_links, evaluated, shots, image, image_bytes, saved_file, reported>>

\* _capture_qr_code up to the wait: settle, read current_url, and on the
\* intermediate payment path settle five seconds and read it once more
CaptureQrCodeUrl ==
    /\ pc = "capture"
    /\ started' = Append(started, "capture")
    /\ \E read1 \in Outcomes, url \in UrlKinds, read2 \in Outcomes, url2 \in UrlKinds :
         IF ~read1
         THEN /\ trace' = trace \o <<Sleep("3"), Ev("current_url", FALSE)>>
              /\ Raise("capture", "WebDriverException")
         ELSE IF url # "/payment/"
         THEN /\ trace' = trace \o <<Sleep("3"), <<"current_url", url>>>>
              /\ pc' = "capture_wait"
              /\ UNCHANGED <<exc, failedStep>>
         ELSE /\ trace' = trace \o <<Sleep("3"), <<"current_url", url>>, Sleep("5"),
                                     IF read2 THEN <<"current_url", url2>>
                                              ELSE Ev("current_url", FALSE)>>
              /\ IF read2
                 THEN pc' = "capture_wait" /\ UNCHANGED <<exc, failedStep>>
                 ELSE Raise("capture", "WebDriverException")
    /\ UNCHANGED sessionVars
    /\ UNCHANGED <<profile, result, qr_code, pix_button, selector, page_links,
                   evaluated, shots, image, image_bytes, saved_file, reported>>

\* a _capture_qr_code that raises without taking its screenshot
QrNotFoundShotsNone(saved) == shots

\* the _take_screenshot calls _capture_qr_code makes when the token is not found
QrNotFoundShots(saved) == TakeScreenshot("qr_code_not_found", saved)

\* a _take_screenshot whose own failure replaces the token-not-found failure
QrNotFoundExcMasked(saved) ==
    IF saved THEN "QR Code nao foi encontrado na pagina" ELSE "screenshot failed"

\* the exception _capture_qr_code raises after its screenshot call, saved or
\* not: _take_screenshot swallows its own failure
QrNotFoundExc(saved) == "QR Code nao foi encontrado na pagina"

\* _capture_qr_code, try block: wait for #qrCode and read its value; on any
\* failure take the qr_code_not_found screenshot and raise
CaptureQrCodeWait ==
    /\ pc = "capture_wait"
    /\ \E present \in Outcomes, read \in Outcomes, value \in TokenValues, saved \in Outcomes :
         IF present /\ read
         THEN /\ trace' = trace \o <<Ev("wait_qrCode", TRUE), Ev("get_value", TRUE)>>
              /\ qr_code' = value
              /\ pc' = "image"
              /\ UNCHANGED <<exc, failedStep, shots>>
         ELSE /\ trace' = (IF present
                           THEN trace \o <<Ev("wait_qrCode", TRUE), Ev("get_value", FALSE)>>
                           ELSE Append(trace, Ev("wait_qrCode", FALSE)))
                          \o <<Ev("save_screenshot", saved)>>
              /\ shots' = QrNotFoundShots(saved)
              /\ Raise("capture", QrNotFoundExc(saved))
              /\ UNCHANGED qr_code
    /\ UNCHANGED sessionVars
    /\ UNCHANGED <<profile, result, pix_button, selector, page_links, evaluated,
                   started, image, image_bytes, saved_file, reported>>

(* -------------------- capture_and_display_qr_image -------------------- *)

\* the image source passes every step up to image.save
ImageDecodes(src) ==
    IsDataImage(src) /\ Len(src) >= 2 /\ Decodes(src[2]) /\ IsImage(src[2])

\* a capture_and_display_qr_image whose failures reach generate_pix
ImageCaptureNextUncaught(ok) == IF ok THEN "return" ELSE "except"

\* position of generate_pix after capture_and_display_qr_image; ok is whether
\* the image was saved: every exception is caught inside and None returned
ImageCaptureNext(ok) == "return"

\* capture_and_display_qr_image: wait for the inline image, read its src,
\* decode and save it, print the report; returns the base64 payload or None
CaptureAndDisplayQrImage ==
    /\ pc = "image"
    /\ started' = Append(started, "image")
    /\ \E present \in Outcomes, read \in Outcomes, src \in ImgSrcs,
          saved \in BOOLEAN, printed \in BOOLEAN :
         LET decoded == present /\ read /\ IsDataImage(src) /\ Len(src) >= 2
                        /\ Decodes(src[2])
             written == decoded /\ IsImage(src[2]) /\ saved
             ok == present /\ read /\ ImageDecodes(src) /\ saved /\ printed IN
         /\ trace' = IF ~present THEN Append(trace, Ev("wait_image", FALSE))
                     ELSE trace \o <<Ev("wait_image", TRUE), Ev("get_src", read)>>
         /\ image_bytes' = IF decoded THEN B64Decode(src[2]) ELSE <<>>
         /\ saved_file' = IF written THEN PngEncode(B64Decode(src[2])) ELSE <<>>
         /\ reported' = IF ok THEN Len(B64Decode(src[2])) ELSE -1
         /\ image' = IF ok THEN src[2] ELSE None
         /\ pc' = ImageCaptureNext(ok)
    /\ UNCHANGED sessionVars
    /\ UNCHANGED <<profile, exc, failedStep, result, qr_code, pix_button, selector,
                   page_links, evaluated, shots>>

(* ------------------- generate_pix: return and except ------------------ *)

\* end of the try block: log success, return qr_code
GeneratePixReturn ==
    /\ pc = "return"
    /\ result' = qr_code
    /\ pc' = "idle"
    /\ UNCHANGED sessionVars
    /\ UNCHANGED <<profile, exc, failedStep, qr_code, pix_button, selector, page_links,
                   evaluated, started, shots, image, image_bytes, saved_file, reported, trace>>

\* an except clause that reuses the tag of _capture_qr_code
ErrorScreenshotTagReused == "qr_code_not_found"

\* an except clause that starts the whole run again instead of returning
GeneratePixExceptRetry ==
    /\ pc = "except"
    /\ pc' = "navigate"
    /\ exc' = "none"
    /\ failedStep' = "none"
    /\ qr_code' = None
    /\ pix_button' = 0
    /\ selector' = 0
    /\ page_links' = {}
    /\ evaluated' = <<>>
    /\ started' = <<>>
    /\ shots' = <<>>
    /\ image' = None
    /\ image_bytes' = <<>>
    /\ saved_file' = <<>>
    /\ reported' = -1
    /\ trace' = <<>>
    /\ UNCHANGED sessionVars
    /\ UNCHANGED <<profile, result>>

\* tag generate_pix gives the screenshot it takes in its except clause
ErrorScreenshotTag == "error_screenshot"

\* except clause of generate_pix: log, screenshot, return ""
GeneratePixExcept ==
    /\ pc = "except"
    /\ \E saved \in Outcomes :
         /\ shots' = TakeScreenshot(ErrorScreenshotTag, saved)
         /\ trace' = Append(trace, Ev("save_screenshot", saved))
    /\ exc' = "none"
    /\ result' = ""
    /\ pc' = "idle"
    /\ UNCHANGED sessionVars
    /\ UNCHANGED <<profile, failedStep, qr_code, pix_button, selector, page_links,
                   evaluated, started, image, image_bytes, saved_file, reported>>

(* ----------------------- navigate_to and close ------------------------ *)

\* a public call other than generate_pix begins: the locals and the history
\* of the previous call are gone
NewCall ==
    /\ profile' = NoProfile
    /\ exc' = "none"
    /\ failedStep' = "none"
    /\ result' = NoResult
    /\ qr_code' = None
    /\ pix_button' = 0
    /\ selector' = 0
    /\ page_links' = {}
    /\ evaluated' = <<>>
    /\ started' = <<>>
    /\ shots' = <<>>
    /\ image' = None
    /\ image_bytes' = <<>>
    /\ saved_file' = <<>>
    /\ reported' = -1

\* navigate_to(url): driver.get, then log; an exception reaches the caller
NavigateTo ==
    /\ pc = "idle"
    /\ navs < MaxNavs
    /\ navs' = navs + 1
    /\ patchedSinceNav' = FALSE
    /\ \E ok \in Outcomes :
         /\ escaped' = ~ok
         /\ trace' = <<Ev("get", ok)>>
    /\ NewCall
    /\ UNCHANGED <<pc, driver, alive, logger, runs, closes, quits>>

\* close(): quit the driver if self.driver is set, then log
Close ==
    /\ pc = "idle"
    /\ closes < MaxCloses
    /\ closes' = closes + 1
    /\ IF driver # None
       THEN quits' = quits + 1 /\ alive' = FALSE /\ trace' = <<Ev("quit", TRUE)>>
       ELSE UNCHANGED <<quits, alive>> /\ trace' = <<>>
    /\ escaped' = FALSE
    /\ NewCall
    /\ UNCHANGED <<pc, driver, logger, patchedSinceNav, runs, navs>>

(* --------------------------- specification ---------------------------- *)

Next ==
    \/ SetupDriver
    \/ CreateLogsDir
    \/ SetupLogging
    \/ GeneratePix
    \/ NavigateToCheckout
    \/ FillCpfField
    \/ FinishPurchaseLocate
    \/ FinishPurchaseClick
    \/ FinishPurchaseScriptedClick
    \/ FinishPurchaseAlternative
    \/ HandleExistingPixStart
    \/ HandleExistingPixProbe
    \/ HandleExistingPixAct
    \/ CaptureQrCodeUrl
    \/ CaptureQrCodeWait
    \/ CaptureAndDisplayQrImage
    \/ GeneratePixReturn
    \/ GeneratePixExcept
    \/ NavigateTo
    \/ Close

Spec == Init /\ [][Next]_vars

(* ------------------------------ helpers ------------------------------- *)

\* generate_pix was the last call made and it has returned
RunDone == pc = "idle" /\ result # NoResult

\* the call list of this run holds the call op with outcome out
Did(op, out) == \E i \in 1..Len(trace) : trace[i] = <<op, out>>

\* step s of generate_pix was started in this run
Started(s) == \E i \in 1..Len(started) : started[i] = s

\* number of screenshots of this run tagged tag that were written to disk
Produced(tag) == Cardinality({ i \in 1..Len(shots) : shots[i] = <<tag, "saved">> })

\* number of _take_screenshot calls of this run tagged tag
Requested(tag) == Cardinality({ i \in 1..Len(shots) : shots[i][1] = tag })

StepOrder == <<"navigate", "fill", "finish", "existing", "capture", "image">>

NonEmptyTokens == TokenValues \ {"", None}

(* ------------------------------- C1 ----------------------------------- *)

\* C1: generate_pix returns a non-empty token or the empty result "" and
\* raises nothing to its caller, whatever the profile and the browser do.
C1_TokenOrEmpty ==
    RunDone => /\ exc = "none"
               /\ result = "" \/ result \in NonEmptyTokens

(* ------------------------------- C2 ----------------------------------- *)

\* the tag that would name the failing step
StepTag(step) == IF step = "capture" THEN "qr_code_not_found" ELSE step

ExistingRaised == Did("scroll_pix", "raise") \/ Did("js_click_pix", "raise")

C2_WitnessExisting == RunDone /\ ExistingRaised /\ failedStep = "none"

(* ------------------------------- C3 ----------------------------------- *)

\* the wait for the element with id qrCode timed out in this run
TokenNeverAppeared == Did("wait_qrCode", "raise")

\* C3 as stated: when the token field never appears the result is empty and
\* exactly one screenshot tagged qr_code_not_found is produced.
C3_OneShotProduced ==
    (RunDone /\ TokenNeverAppeared) =>
        (result = "" /\ Produced("qr_code_not_found") = 1)

\* C3 amended: when the token field never appears the result is empty and
\* exactly one screenshot tagged qr_code_not_found is requested, which is
\* produced unless saving it fails; generate_pix then requests a second one
\* tagged error_screenshot.
C3_OneShotRequested ==
    (RunDone /\ TokenNeverAppeared) =>
        /\ result = ""
        /\ Len(shots) = 2
        /\ shots[1][1] = "qr_code_not_found"
        /\ shots[2][1] = "error_screenshot"
        /\ Produced("qr_code_not_found") <= 1

C3_Witness ==
    /\ RunDone
    /\ TokenNeverAppeared
    /\ shots[1] = <<"qr_code_not_found", "failed">>
    /\ result = ""

(* ------------------------------- C4 ----------------------------------- *)

\* C4: once the token was extracted, no outcome of
\* capture_and_display_qr_image takes the run to the except clause, and
\* generate_pix returns the token extracted.
C4_ImageNonFatal ==
    Started("image") =>
        /\ pc \in {"return", "idle"}
        /\ failedStep = "none"
        /\ RunDone => result = qr_code

C4_Witness ==
    /\ RunDone
    /\ Did("wait_image", "raise")
    /\ image = None
    /\ image_bytes = <<>>
    /\ saved_file = <<>>
    /\ reported = -1
    /\ result \in NonEmptyTokens

(* ------------------------------- C5 ----------------------------------- *)

\* _finish_purchase has returned or raised
FinishDecided == Started("finish") /\ pc \notin {"finish", "finish_click", "finish_js", "finish_alt"}

\* C5 as stated: if the native click raises, the scripted click is invoked
\* exactly once before the step is decided.
C5_ScriptedOnce ==
    (FinishDecided /\ Did("click_finish", "raise")) => Count(trace, "js_click_finish") = 1

\* C5 amended: if the native click raises, the scripted click on the same
\* handle is the next call and is made once; only if it raises too, one
\* direct lookup follows and, if that finds the control, one more scripted
\* click: one or two scripted clicks in the run, never zero, never three.
C5_ScriptedOnceOrTwice ==
    \A i \in 1..Len(trace) :
        (FinishDecided /\ trace[i] = <<"click_finish", "raise">>) =>
            /\ Len(trace) > i
            /\ trace[i + 1][1] = "js_click_finish"
            /\ Count(trace, "js_click_finish") \in {1, 2}
            /\ Count(trace, "find_finish") <= 1
            /\ Count(trace, "js_click_finish") = 2 =>
                  /\ trace[i + 1] = <<"js_click_finish", "raise">>
                  /\ trace[i + 2] = <<"find_finish", "ok">>
                  /\ trace[i + 3][1] = "js_click_finish"
            /\ trace[i + 1] = <<"js_click_finish", "ok">> => Count(trace, "find_finish") = 0

C5_Witness ==
    /\ FinishDecided
    /\ Did("click_finish", "raise")
    /\ Count(trace, "js_click_finish") = 2
    /\ Started("existing")

(* ------------------------------- C6 ----------------------------------- *)

\* the finish control received a click that returned
FinishClicked == Did("click_finish", "ok") \/ Did("js_click_finish", "ok")

\* C6: the steps start in the order navigate, fill, finish, existing,
\* capture, image, each only after the earlier ones it needs succeeded; when
\* the identification field never appears nothing after fill is started.
C6_StepOrder ==
    /\ Len(started) <= Len(StepOrder)
    /\ \A i \in 1..Len(started) : started[i] = StepOrder[i]
    /\ Started("fill") => Did("get", "ok")
    /\ Started("finish") => Did("send_keys", "ok")
    /\ Started("existing") => FinishClicked
    /\ Started("image") => Did("get_value", "ok")
    /\ Did("wait_identification", "raise") => started = <<"navigate", "fill">>

C6_Witness ==
    /\ RunDone
    /\ Did("wait_identification", "raise")
    /\ started = <<"navigate", "fill">>

(* ------------------------------- C7 ----------------------------------- *)

\* the loop of _handle_existing_pix ended with all three locators unmatched
NoneMatched ==
    /\ Started("existing")
    /\ pc \notin {"existing_probe", "existing_act"}
    /\ evaluated = <<1, 2, 3>>
    /\ pix_button = 0

\* C7: when none of the three locators matches, no click is issued, the
\* step does not fail and the run goes on to token extraction.
C7_AbsenceIsNoError ==
    NoneMatched =>
        /\ Count(trace, "js_click_pix") = 0
        /\ Count(trace, "scroll_pix") = 0
        /\ failedStep # "existing"
        /\ pc = "capture" \/ Started("capture")

C7_Witness == NoneMatched /\ page_links = {} /\ pc = "capture_wait"

(* ------------------------------- C8 ----------------------------------- *)

\* C8: when the page matches only the k-th locator, the k-th locator's
\* element is the one found, locators 1..k are evaluated once each in order
\* and none after the k-th.
C8_KthLocator ==
    \A k \in 1..Len(pix_selectors) :
        (Started("existing") /\ pc # "existing_probe" /\ page_links = {k}) =>
            /\ pix_button = k
            /\ evaluated = [i \in 1..k |-> i]

(* ------------------------------- C9 ----------------------------------- *)

\* positions at which the next call reads the state of the page
PageReadingPcs == {"fill", "finish", "finish_alt", "existing_probe", "capture",
                   "capture_wait", "image"}

\* C9: no page state is read after a navigation without the automation
\* patch having been injected again since that navigation.
C9_PatchReapplied == pc \in PageReadingPcs => patchedSinceNav

(* ------------------------------- C10 ---------------------------------- *)

\* C10: over any sequence of close() calls quit is issued at most once.
C10_QuitAtMostOnce == quits <= 1

(* ------------------------- app.py: __main__ --------------------------- *)

\* the customer profile app.py hands to generate_pix
MainProfile == <<"i@c.br", "Iago", "95997984584", "25252856974">>

\* app.py, try block: the one generate_pix call of the program
MainGeneratePix ==
    /\ runs = 0
    /\ closes = 0
    /\ GeneratePix
    /\ profile' = MainProfile

\* app.py, after generate_pix returned: print the outcome, then the finally
\* clause calls generator.close()
MainClose ==
    /\ RunDone
    /\ closes = 0
    /\ Close

\* the program of app.py: the constructor (outside the try), one
\* generate_pix call, one close in the finally clause
NextMain ==
    \/ SetupDriver
    \/ CreateLogsDir
    \/ SetupLogging
    \/ MainGeneratePix
    \/ NavigateToCheckout
    \/ FillCpfField
    \/ FinishPurchaseLocate
    \/ FinishPurchaseClick
    \/ FinishPurchaseScriptedClick
    \/ FinishPurchaseAlternative
    \/ HandleExistingPixStart
    \/ HandleExistingPixProbe
    \/ HandleExistingPixAct
    \/ CaptureQrCodeUrl
    \/ CaptureQrCodeWait
    \/ CaptureAndDisplayQrImage
    \/ GeneratePixReturn
    \/ GeneratePixExcept
    \/ MainClose

SpecMain == Init /\ [][NextMain]_vars

(* ------------------------------- C11 ---------------------------------- *)

\* app.py has ended: the constructor raised out of the program, or the
\* finally clause has run
ProgramEnded == pc = "ctor_failed" \/ (pc = "idle" /\ runs = 1 /\ closes > 0)

\* C11: on every path of app.py on which a browser was launched, the program
\* ends with the browser released by exactly one close().
C11_ReleasedOnce ==
    (ProgramEnded /\ driver = "chrome") => (closes = 1 /\ quits = 1 /\ ~alive)

(* ------------------------------- C12 ---------------------------------- *)

\* one step of a running generate_pix call
RunStep ==
    \/ NavigateToCheckout
    \/ FillCpfField
    \/ FinishPurchaseLocate
    \/ FinishPurchaseClick
    \/ FinishPurchaseScriptedClick
    \/ FinishPurchaseAlternative
    \/ HandleExistingPixStart
    \/ HandleExistingPixProbe
    \/ HandleExistingPixAct
    \/ CaptureQrCodeUrl
    \/ CaptureQrCodeWait
    \/ CaptureAndDisplayQrImage
    \/ GeneratePixReturn
    \/ GeneratePixExcept

\* a generate_pix call is in progress
Running == pc \notin {"new", "ctor_dirs", "ctor_logging", "ctor_failed", "idle"}

\* the number of steps a running generate_pix call can still take, at most
StepsLeft ==
    CASE pc = "navigate" -> 16
      [] pc = "fill" -> 15
      [] pc = "finish" -> 14
      [] pc = "finish_click" -> 13
      [] pc = "finish_js" -> 12
      [] pc = "finish_alt" -> 11
      [] pc = "existing" -> 10
      [] pc = "existing_probe" -> 6 + (Len(pix_selectors) - selector)
      [] pc = "existing_act" -> 5
      [] pc = "capture" -> 4
      [] pc = "capture_wait" -> 3
      [] pc = "image" -> 2
      [] pc \in {"return", "except"} -> 1
      [] OTHER -> 0

\* C12: every generate_pix run reaches its return, token or empty result,
\* after a bounded number of steps: a running call can always take its next
\* step (each wait resolves or times out into the failure of its step), each
\* step lowers the number of steps left, no locator is tried twice and the
\* run makes at most 27 browser calls.
C12_Terminates ==
    /\ [](Running => ENABLED RunStep)
    /\ [][Running => StepsLeft' < StepsLeft]_vars
    /\ [](Len(trace) <= 27 /\ Len(evaluated) <= Len(pix_selectors))
    /\ [](RunDone => StepsLeft = 0)

C12_Witness ==
    /\ RunDone
    /\ Did("wait_finish", "raise")
    /\ Did("find_finish", "raise")
    /\ result = ""

(* ------------------------------- C13 ---------------------------------- *)

\* the direct lookup found the control and its scripted click returned
DirectAttemptWorked ==
    \E i \in 1..Len(trace) - 1 :
        trace[i] = <<"find_finish", "ok">> /\ trace[i + 1] = <<"js_click_finish", "ok">>

\* C13: if the wait-based lookup of the finish control fails, exactly one
\* direct lookup is made, followed by a scripted click when it finds the
\* control; the finalization failure is raised only if that attempt fails,
\* and if it works the step succeeds and the run goes on.
C13_DirectLookupOnce ==
    (FinishDecided /\ Did("wait_finish", "raise")) =>
        /\ Count(trace, "find_finish") = 1
        /\ Count(trace, "click_finish") = 0
        /\ Count(trace, "js_click_finish") = (IF Did("find_finish", "ok") THEN 1 ELSE 0)
        /\ DirectAttemptWorked =>
              ((pc = "existing" \/ Started("existing")) /\ failedStep # "finish")
        /\ ~DirectAttemptWorked => (failedStep = "finish" /\ ~Started("existing"))

C13_Witness ==
    /\ FinishDecided
    /\ Did("wait_finish", "raise")
    /\ DirectAttemptWorked
    /\ pc = "capture"

(* ------------------------------- C14 ---------------------------------- *)

\* a navigation or a click that was carried out (the call returned)
Activations == { <<"get", "ok">>, <<"click_finish", "ok">>,
                 <<"js_click_finish", "ok">>, <<"js_click_pix", "ok">> }

\* explicit wait conditions
WaitOps == {"wait_identification", "wait_finish", "wait_qrCode", "wait_image"}

CountEv(xs, ev) == Cardinality({ i \in 1..Len(xs) : xs[i] = ev })

\* C15: _capture_qr_code reads the URL once; only if it is on the payment
\* path it takes one extra delay and reads the URL once more, and then goes
\* on to wait for the token field whatever the second URL is: at most two
\* reads and one extra delay per run.
C15_OneShotExtraWait ==
    /\ Count(trace, "current_url") <= 2
    /\ CountEv(trace, Sleep("5")) <= 1
    /\ \A i \in 1..Len(trace) :
          trace[i] = Sleep("5") =>
              /\ trace[i - 1] = <<"current_url", "/payment/">>
              /\ Count(SubSeq(trace, 1, i), "current_url") = 1
              /\ trace[i + 1][1] = "current_url"
              /\ trace[i + 1][2] \in UrlKinds => (pc = "capture_wait" \/ Did("wait_qrCode", "ok")
                                                   \/ Did("wait_qrCode", "raise"))
    /\ (Started("capture") /\ CountEv(trace, Sleep("5")) = 0) =>
          (Count(trace, "current_url") = 1 /\ ~Did("current_url", "/payment/"))

C15_Witness ==
    /\ pc = "capture_wait"
    /\ trace[Len(trace)] = <<"current_url", "/payment/">>
    /\ trace[Len(trace) - 1] = Sleep("5")

(* ------------------------------- C16 ---------------------------------- *)

\* a screenshot of this run could not be saved
ShotFailed == \E i \in 1..Len(shots) : shots[i][2] = "failed"

\* C16: a screenshot that cannot be saved masks nothing: _capture_qr_code
\* still raises its own token-not-found failure, and generate_pix still
\* returns the empty result with no exception left.
C16_DiagnosticsMaskNothing ==
    /\ (pc = "except" /\ shots # <<>>) =>
          (failedStep = "capture" /\ exc = "QR Code nao foi encontrado na pagina")
    /\ (RunDone /\ ShotFailed) => (result = "" /\ exc = "none")

C16_Witness ==
    /\ pc = "except"
    /\ shots = << <<"qr_code_not_found", "failed">> >>
    /\ exc = "QR Code nao foi encontrado na pagina"

(* ------------------------------- C17 ---------------------------------- *)

\* C17: the file saved by capture_and_display_qr_image holds exactly the
\* decoded bytes of the inline payload, and the byte length reported is the
\* decoded length.
C17_RoundTrip ==
    saved_file # <<>> =>
        /\ saved_file = image_bytes
        /\ reported # -1 => reported = Len(image_bytes)

(* ------------------------------- C18 ---------------------------------- *)

\* C18: a scroll or scripted click that raises inside _handle_existing_pix
\* after a link was found never aborts the run: the run goes on to token
\* extraction, the failure is not attributed to any step and no screenshot
\* is taken for it.
C18_ResolverNeverAborts ==
    (ExistingRaised /\ pc # "existing_act") =>
        /\ pc = "capture" \/ Started("capture")
        /\ failedStep \in {"none", "capture"}
        /\ pc = "capture" => shots = <<>>
        /\ failedStep = "none" => shots = <<>>

C18_Witness ==
    /\ RunDone
    /\ Did("js_click_pix", "raise")
    /\ result \in NonEmptyTokens
    /\ shots = <<>>

(* ------------------------------- C19 ---------------------------------- *)

\* calls that activate the finish control
FinishActivationOps == {"click_finish", "js_click_finish"}

\* C19: in a run the finish control receives at most one activation that
\* returns, and an activation is attempted only after every earlier one
\* raised.
C19_NoDoubleSubmission ==
    \A i, j \in 1..Len(trace) :
        (i < j /\ trace[i][1] \in FinishActivationOps /\ trace[j][1] \in FinishActivationOps)
            => trace[i][2] = "raise"

C19_Witness ==
    /\ pc = "existing"
    /\ Count(trace, "click_finish") = 1
    /\ Count(trace, "js_click_finish") = 2
    /\ trace[Len(trace)] = <<"js_click_finish", "ok">>

====
